---- MODULE Spec2Model ----
(***************************************************************************)
(* A model of the SNOUTIQ retrieval-and-generation core, src/rag_system.py *)
(* (class SnoutiqRAG), and of the way src/backend/app.py drives it.        *)
(*                                                                         *)
(* Conventions                                                             *)
(*  - A Python str the code searches, lower-cases or rewrites is a         *)
(*    sequence of one-character strings, so that `in`, lower() and         *)
(*    replace() are computed character by character as Python does.       *)
(*    Strings that are only stored and copied are TLA+ strings.            *)
(*  - A Python dict is a function whose DOMAIN is its key set; Get is      *)
(*    dict.get(key, default).                                              *)
(*  - Similarity scores are integers in hundredths (0.3 is 30); a boosted  *)
(*    score is raw * boost with the boost in tenths (1.5 is 15), so the    *)
(*    order of boosted scores is the order of the code's products.         *)
(*  - Positions are 1-based here and 0-based in the source.                *)
(***************************************************************************)
EXTENDS Integers, Sequences, FiniteSets, TLC

VARIABLES documents, metadata, index, loaded, loader, call, expand

vars == <<documents, metadata, index, loaded, loader, call, expand>>

(***************************************************************************)
(* Configuration, src/rag_system.py lines 24-48.                           *)
(***************************************************************************)
TOP_K == 10

MIN_SIMILARITY == 30

SEVERITY_BOOST == [emergency |-> 15, urgent |-> 12, routine |-> 10]

MEDICAL_SYNONYMS ==
  <<
    [term |-> <<"v","o","m","i","t">>,
     synonyms |-> <<<<"v","o","m","i","t","i","n","g">>,
                    <<"t","h","r","o","w","i","n","g"," ","u","p">>,
                    <<"e","m","e","s","i","s">>>>],
    [term |-> <<"d","i","a","r","r","h","e","a">>,
     synonyms |-> <<<<"l","o","o","s","e"," ","s","t","o","o","l">>,
                    <<"l","o","o","s","e"," ","m","o","t","i","o","n">>,
                    <<"w","a","t","e","r","y"," ","s","t","o","o","l">>>>],
    [term |-> <<"p","e","e">>,
     synonyms |-> <<<<"u","r","i","n","a","t","e">>,
                    <<"u","r","i","n","e">>,
                    <<"u","r","i","n","a","t","i","o","n">>>>],
    [term |-> <<"p","o","o","p">>,
     synonyms |-> <<<<"s","t","o","o","l">>,
                    <<"f","e","c","e","s">>,
                    <<"d","e","f","e","c","a","t","e">>>>],
    [term |-> <<"c","o","u","g","h">>,
     synonyms |-> <<<<"c","o","u","g","h","i","n","g">>,
                    <<"h","a","c","k","i","n","g">>>>],
    [term |-> <<"s","c","r","a","t","c","h">>,
     synonyms |-> <<<<"s","c","r","a","t","c","h","i","n","g">>,
                    <<"i","t","c","h","i","n","g">>,
                    <<"i","t","c","h","y">>>>],
    [term |-> <<"l","i","m","p">>,
     synonyms |-> <<<<"l","i","m","p","i","n","g">>,
                    <<"l","a","m","e">>,
                    <<"n","o","t"," ","w","a","l","k","i","n","g">>>>],
    [term |-> <<"b","r","e","a","t","h">>,
     synonyms |-> <<<<"b","r","e","a","t","h","i","n","g">>,
                    <<"r","e","s","p","i","r","a","t","o","r","y">>,
                    <<"p","a","n","t","i","n","g">>>>],
    [term |-> <<"e","a","t">>,
     synonyms |-> <<<<"e","a","t","i","n","g">>,
                    <<"a","p","p","e","t","i","t","e">>,
                    <<"f","o","o","d">>>>],
    [term |-> <<"b","l","o","o","d">>,
     synonyms |-> <<<<"b","l","e","e","d","i","n","g">>,
                    <<"b","l","o","o","d","y">>>>]
  >>

EMERGENCY_KEYWORDS ==
  <<
    <<"b","l","e","e","d","i","n","g">>,
    <<"b","l","o","o","d">>,
    <<"s","e","i","z","u","r","e">>,
    <<"u","n","c","o","n","s","c","i","o","u","s">>,
    <<"n","o","t"," ","b","r","e","a","t","h","i","n","g">>,
    <<"c","o","l","l","a","p","s","e","d">>,
    <<"s","e","v","e","r","e"," ","p","a","i","n">>,
    <<"b","l","o","a","t">>,
    <<"p","o","i","s","o","n","i","n","g">>,
    <<"t","r","a","u","m","a">>,
    <<"s","n","a","k","e"," ","b","i","t","e">>,
    <<"b","r","o","k","e","n"," ","b","o","n","e">>,
    <<"c","a","n","'","t"," ","s","t","a","n","d">>,
    <<"b","l","u","e"," ","g","u","m","s">>
  >>

(***************************************************************************)
(* Python built-ins the code uses.                                         *)
(***************************************************************************)
Min(a, b) == IF a <= b THEN a ELSE b

\* s[:n]
Take(s, n) == SubSeq(s, 1, Min(n, Len(s)))

\* d.get(key, default)
Get(d, key, default) == IF key \in DOMAIN d THEN d[key] ELSE default

\* d[key] = value
SetKey(d, key, value) ==
  [k \in DOMAIN d \cup {key} |-> IF k = key THEN value ELSE d[k]]

UpperChars ==
  <<"A","B","C","D","E","F","G","H","I","J","K","L","M",
    "N","O","P","Q","R","S","T","U","V","W","X","Y","Z">>

LowerChars ==
  <<"a","b","c","d","e","f","g","h","i","j","k","l","m",
    "n","o","p","q","r","s","t","u","v","w","x","y","z">>

LowerChar(c) ==
  IF \E i \in DOMAIN UpperChars : UpperChars[i] = c
  THEN LowerChars[CHOOSE i \in DOMAIN UpperChars : UpperChars[i] = c]
  ELSE c

\* s.lower()
Lower(s) == [i \in 1..Len(s) |-> LowerChar(s[i])]

\* t in s
Contains(s, t) ==
  \E i \in 0..(Len(s) - Len(t)) : SubSeq(s, i + 1, i + Len(t)) = t

\* s.replace(old, new): every non-overlapping occurrence, left to right
RECURSIVE Replace(_, _, _)
Replace(s, old, new) ==
  IF Len(s) < Len(old) \/ Len(old) = 0 THEN s
  ELSE IF SubSeq(s, 1, Len(old)) = old
       THEN new \o Replace(SubSeq(s, Len(old) + 1, Len(s)), old, new)
       ELSE <<Head(s)>> \o Replace(Tail(s), old, new)

\* sep.join(parts)
RECURSIVE Join(_, _)
Join(parts, sep) ==
  IF Len(parts) = 0 THEN <<>>
  ELSE IF Len(parts) = 1 THEN parts[1]
       ELSE parts[1] \o sep \o Join(Tail(parts), sep)

(***************************************************************************)
(* expand_query, lines 126-137.                                            *)
(***************************************************************************)
\* lines 133-135: the variants one table entry contributes
SynonymVariants(query_lower, term, synonyms) ==
  LET firstTwo == Take(synonyms, 2)
      RECURSIVE Go(_)
      Go(i) ==
        IF i > Len(firstTwo) THEN <<>>
        ELSE (IF ~Contains(query_lower, firstTwo[i])
              THEN <<Replace(query_lower, term, firstTwo[i])>>
              ELSE <<>>) \o Go(i + 1)
  IN  Go(1)

\* lines 128-135: the list `expanded` when the loop over the table ends
ExpandedList(query) ==
  LET query_lower == Lower(query)
      RECURSIVE Go(_)
      Go(t) ==
        IF t > Len(MEDICAL_SYNONYMS) THEN <<>>
        ELSE (IF Contains(query_lower, MEDICAL_SYNONYMS[t].term)
              THEN SynonymVariants(query_lower, MEDICAL_SYNONYMS[t].term,
                                   MEDICAL_SYNONYMS[t].synonyms)
              ELSE <<>>) \o Go(t + 1)
  IN  <<query>> \o Go(1)

\* the slice of line 137 left out
expand_query_NoCap(query) == Join(ExpandedList(query), <<" ">>)

\* line 137
expand_query(query) == Join(Take(ExpandedList(query), 3), <<" ">>)

(***************************************************************************)
(* detect_emergency, lines 139-142.                                        *)
(***************************************************************************)
detect_emergency(query) ==
  LET query_lower == Lower(query)
  IN  \E k \in DOMAIN EMERGENCY_KEYWORDS :
        Contains(query_lower, EMERGENCY_KEYWORDS[k])

(***************************************************************************)
(* The dataset files load_datasets may be given.  A file is its name and   *)
(* what open() + json.load() (lines 81-82) yield for it.  An entry is the  *)
(* JSON object of one corpus record; keys may be absent, which the code    *)
(* allows for by reading every field with .get and a default.              *)
(***************************************************************************)
e_vomit ==
  [symptom |-> "vomiting",
   description |-> "Repeated vomiting, often after eating",
   severity |-> "urgent",
   species |-> <<"d","o","g","s">>,
   home_care_india |-> "Withhold food for 12 hours, offer ORS in small sips",
   vet_triggers |-> "Vomiting more than 3 times in a day",
   service_recommendation |-> "video_consult",
   indian_climate_factors |-> "Dehydrates fast in summer heat"]

e_bloat ==
  [symptom |-> "bloat",
   description |-> "Swollen hard abdomen with retching",
   severity |-> "emergency",
   species |-> <<"D","o","g","s">>,
   home_care_india |-> "None, go to a clinic",
   vet_triggers |-> "Immediately",
   service_recommendation |-> "in_clinic",
   indian_climate_factors |-> "Worse after exercise in heat"]

e_hairball ==
  [symptom |-> "hairball",
   description |-> "Occasional retching of hair",
   severity |-> "routine",
   species |-> <<"c","a","t","s">>,
   home_care_india |-> "Brush daily",
   vet_triggers |-> "If retching without producing a hairball",
   service_recommendation |-> "video_consult",
   indian_climate_factors |-> "More shedding before monsoon"]

\* no species, a severity outside the boost table, most fields absent
e_odd == [symptom |-> "dull coat", severity |-> "moderate"]

\* a JSON value that is not an object (entry.get raises AttributeError)
JsonString == [json_type |-> "string"]

IsDict(v) == "json_type" \notin DOMAIN v

f_vomit ==
  [name |-> <<"d","/","m","a","s","t","e","r","_","g","u","t","_","d","a","t","a","s","e","t",".","j","s","o","n">>,
   data |-> [kind |-> "dict", entries |-> <<e_vomit>>]]

f_mixed ==
  [name |-> <<"a","/","b","/","m","a","s","t","e","r","_","g","e","n","e","r","a","l","_","d","a","t","a","s","e","t",".","j","s","o","n">>,
   data |-> [kind |-> "dict", entries |-> <<e_hairball, e_bloat>>]]

\* the second entry is not an object: the file is abandoned there
f_odd ==
  [name |-> <<"m","a","s","t","e","r","_","s","k","i","n","_","d","a","t","a","s","e","t",".","j","s","o","n">>,
   data |-> [kind |-> "dict", entries |-> <<e_odd, JsonString, e_vomit>>]]

\* a top-level JSON list: data.get (line 85) raises AttributeError
f_list ==
  [name |-> <<"d","/","m","a","s","t","e","r","_","o","l","d","_","d","a","t","a","s","e","t",".","j","s","o","n">>,
   data |-> [kind |-> "list", items |-> <<e_hairball>>]]

\* open() or json.load() raises
f_missing ==
  [name |-> <<"d","/","m","a","s","t","e","r","_","n","o","n","e","_","d","a","t","a","s","e","t",".","j","s","o","n">>,
   data |-> [kind |-> "unreadable"]]

\* a JSON object without the key 'entries'
f_noentries ==
  [name |-> <<"d","/","m","a","s","t","e","r","_","m","e","t","a","_","d","a","t","a","s","e","t",".","j","s","o","n">>,
   data |-> [kind |-> "dict"]]

DatasetFiles == {f_vomit, f_mixed, f_odd, f_list, f_missing, f_noentries}

\* the longest dataset_files list a load_datasets call is given
MaxFiles == 1

DatasetFileLists ==
  UNION {[1..n -> DatasetFiles] : n \in 0..MaxFiles}

(***************************************************************************)
(* load_datasets, lines 72-124.                                            *)
(***************************************************************************)
\* s.split(sep)[-1], sep one character
RECURSIVE LastSegment(_, _)
LastSegment(s, sep) ==
  IF \E i \in DOMAIN s : s[i] = sep
  THEN LastSegment(Tail(s), sep)
  ELSE s

\* line 84
Category(filename) ==
  LastSegment(Replace(Replace(filename, <<"m","a","s","t","e","r","_">>, <<>>),
                      <<"_","d","a","t","a","s","e","t",".","j","s","o","n">>, <<>>), "/")

\* line 89: f"{symptom}. {description}"
EntryText(entry) ==
  <<Get(entry, "symptom", ""), ". ", Get(entry, "description", "")>>

\* lines 87-94 for the entries of one file, from entry i on, appending to
\* acc = [texts, metas]; a non-object entry raises and ends the file (98-100)
RECURSIVE AppendEntries(_, _, _, _)
AppendEntries(acc, entries, category, i) ==
  IF i > Len(entries) \/ ~IsDict(entries[i]) THEN acc
  ELSE AppendEntries(
         [texts |-> Append(acc.texts, EntryText(entries[i])),
          metas |-> Append(acc.metas, SetKey(entries[i], "category", category))],
         entries, category, i + 1)

\* lines 80-100 for one file
LoadFile(acc, file) ==
  IF file.data.kind # "dict" THEN acc
  ELSE AppendEntries(acc, Get(file.data, "entries", <<>>),
                     Category(file.name), 1)

\* lines 76-100: all_texts and all_metadata when the loop over the files ends
RECURSIVE LoadFiles(_, _)
LoadFiles(acc, dataset_files) ==
  IF Len(dataset_files) = 0 THEN acc
  ELSE LoadFiles(LoadFile(acc, Head(dataset_files)), Tail(dataset_files))

\* the embedding boundary: the vector of a text is identified by the text
Embed(text) == [embedding_of |-> text]

\* lines 108-112
Encode(texts) == [i \in DOMAIN texts |-> Embed(texts[i])]

(***************************************************************************)
(* The vector index (faiss.IndexFlatIP) and search, lines 144-185.         *)
(***************************************************************************)
\* self.index = None (line 67)
NoIndex == [built |-> FALSE, vecs |-> <<>>]

\* faiss.IndexFlatIP(dimension), line 116
EmptyIndex == [built |-> TRUE, vecs |-> <<>>]

\* index.add(embeddings), line 117
IndexAdd(idx, embeddings) == [idx EXCEPT !.vecs = idx.vecs \o embeddings]

\* the cosine similarities the index can report, in hundredths
Scores == {20, 50, 60}

\* index.search(query_emb, k), lines 156-159: k (score, position) pairs, the
\* best first.  The similarity of the query to a stored vector is decided by
\* the embedding model, so every assignment of scores to positions is
\* possible, and so is every order among equal scores.
IndexSearchOutcomes(idx, k) ==
  LET n == Len(idx.vecs)
      kk == Min(k, n)
  IN  {h \in [1..kk -> [score : Scores, idx : 1..n]] :
         /\ \A i, j \in 1..kk : i < j => h[i].idx # h[j].idx
         /\ \A i \in 1..(kk - 1) : h[i].score >= h[i + 1].score}

\* a boost table whose factors are all 1.0
Boost_Flat(severity) == 10

\* SEVERITY_BOOST.get(severity, 1.0), line 175
Boost(severity) ==
  IF severity \in DOMAIN SEVERITY_BOOST THEN SEVERITY_BOOST[severity] ELSE 10

\* `if species`: None and '' are both false
NoSpecies == <<>>

\* the species filter of lines 169-171 left out
Survives_NoSpeciesFilter(hit, meta, species) == ~(hit.score < MIN_SIMILARITY)

\* lines 164-171: whether a hit survives the threshold and the species filter
Survives(hit, meta, species) ==
  /\ ~(hit.score < MIN_SIMILARITY)
  /\ ~(species # NoSpecies
       /\ Lower(Get(meta, "species", <<>>)) # Lower(species))

\* lines 173-181: the result built for a surviving hit; raw is not a key of
\* the code's result, it records the unboosted score the result came from
Result(hit, metas, docs) ==
  [score |-> hit.score * Boost(Get(metas[hit.idx], "severity", "routine")),
   metadata |-> metas[hit.idx],
   text |-> docs[hit.idx],
   raw |-> hit.score]

\* lines 162-181: the list `results` when the loop over the hits ends
RECURSIVE Collect(_, _, _, _, _)
Collect(hits, i, metas, docs, species) ==
  IF i > Len(hits) THEN <<>>
  ELSE (IF Survives(hits[i], metas[hits[i].idx], species)
        THEN <<Result(hits[i], metas, docs)>>
        ELSE <<>>) \o Collect(hits, i + 1, metas, docs, species)

\* a sort that is not stable: an element goes before the elements whose score
\* equals its own
InsertByScore_BeforeTies(sorted, x) ==
  LET n == Cardinality({i \in DOMAIN sorted : sorted[i].score > x.score})
  IN  SubSeq(sorted, 1, n) \o <<x>> \o SubSeq(sorted, n + 1, Len(sorted))

\* list.sort(key=score, reverse=True), line 184: stable, so an element goes
\* after every element whose score is at least its own
InsertByScore(sorted, x) ==
  LET n == Cardinality({i \in DOMAIN sorted : sorted[i].score >= x.score})
  IN  SubSeq(sorted, 1, n) \o <<x>> \o SubSeq(sorted, n + 1, Len(sorted))

RECURSIVE SortByScore(_)
SortByScore(results) ==
  IF Len(results) = 0 THEN <<>>
  ELSE InsertByScore(SortByScore(SubSeq(results, 1, Len(results) - 1)),
                     results[Len(results)])

\* the sort of line 184 left out
RankHits_Unsorted(hits, metas, docs, species, top_k) ==
  Take(Collect(hits, 1, metas, docs, species), top_k)

\* lines 161-185, given what index.search returned
RankHits(hits, metas, docs, species, top_k) ==
  Take(SortByScore(Collect(hits, 1, metas, docs, species)), top_k)

\* search(query, species, top_k): every way it can run in this state, as the
\* hits index.search returned (none when line 147 returns) and the list returned
SearchOutcomes(species, top_k) ==
  IF ~loaded THEN {[hits |-> <<>>, results |-> <<>>]}
  ELSE {[hits |-> h,
         results |-> RankHits(h, metadata, documents, species, top_k)] :
          h \in IndexSearchOutcomes(index, Min(top_k * 2, Len(documents)))}

(***************************************************************************)
(* The generative boundary.  llm.generate_content (line 274) either raises *)
(* (an API error, a deadline exceeded by the client library, a blocked     *)
(* response whose .text raises) or returns a text.  A text is a sequence   *)
(* of tokens: "{" and "}", "prose" for a run of characters without braces  *)
(* that is not JSON, and "members:x" for a well-formed run of JSON object  *)
(* members without braces of its own.                                      *)
(***************************************************************************)
LLMRaises == {[kind |-> "raise", exc |-> "error"],
              [kind |-> "raise", exc |-> "timeout"]}

LLMTexts ==
  {<<"prose">>,
   <<"prose", "{", "prose", "}">>,
   <<"prose", "{", "members:full", "}", "prose">>,
   <<"{", "members:partial", "}">>,
   <<"{", "}">>,
   <<"{", "members:full", "}", "prose", "{", "}">>}

LLMOutcomes == LLMRaises \cup {[kind |-> "text", text |-> t] : t \in LLMTexts}

\* the JSON object a run of members denotes
Members(token) ==
  IF token = "members:full"
  THEN [pet_name |-> "Bruno",
        summary |-> <<"Likely a mild stomach upset">>,
        what_we_found |-> "The symptoms fit a dietary indiscretion",
        immediate_steps |-> <<"Offer water", "Watch for lethargy", "No table scraps">>,
        home_care_tips |-> <<"Bland rice diet", "Keep indoors at noon", "Quiet corner">>,
        when_to_see_vet |-> "If it lasts beyond a day",
        urgency_level |-> "routine",
        service_recommendation |-> "video_consult",
        confidence |-> "high",
        additional_notes |-> "Puppies dehydrate faster"]
  ELSE [summary |-> <<"I am sorry, I cannot assess this">>,
        urgency_level |-> "unknown"]

\* re.search(r'\{.*\}', text, re.DOTALL), line 278: from the first "{" to the
\* last "}" after it (.* is greedy and, with DOTALL, crosses every character)
ReSearch(text) ==
  LET opens == {i \in DOMAIN text : text[i] = "{"}
      first == CHOOSE i \in opens : \A j \in opens : i <= j
      closes == {i \in DOMAIN text : text[i] = "}" /\ i > first}
      last == CHOOSE i \in closes : \A j \in closes : j <= i
  IN  IF opens = {} \/ closes = {}
      THEN [found |-> FALSE, group |-> <<>>]
      ELSE [found |-> TRUE, group |-> SubSeq(text, first, last)]

\* json.loads(json_match.group()), line 281: the object, or JSONDecodeError
JsonLoads(group) ==
  IF group = <<"{", "}">>
  THEN [ok |-> TRUE, value |-> <<>>]
  ELSE IF /\ Len(group) = 3
          /\ group[1] = "{"
          /\ group[2] \in {"members:full", "members:partial"}
          /\ group[3] = "}"
       THEN [ok |-> TRUE, value |-> Members(group[2])]
       ELSE [ok |-> FALSE, value |-> <<>>]

(***************************************************************************)
(* _create_fallback_response, lines 300-347.                               *)
(***************************************************************************)
\* lines 308-327
NoMatchTemplate(pet_details, is_emergency) ==
  [pet_name |-> Get(pet_details, "name", "Your pet"),
   summary |-> <<"We couldn't find specific information for these symptoms.">>,
   what_we_found |-> "The symptoms you described don't closely match our database. This doesn't mean it's not serious.",
   immediate_steps |-> <<"Monitor your pet closely",
                         "Note any changes in behavior or symptoms",
                         "Keep your pet comfortable">>,
   home_care_tips |-> <<"Ensure fresh water is available",
                        "Keep in a cool, comfortable place",
                        "Don't force food if not eating">>,
   when_to_see_vet |-> "Given the uncertainty, we recommend consulting a veterinarian soon.",
   urgency_level |-> IF is_emergency THEN "urgent" ELSE "routine",
   service_recommendation |-> IF is_emergency THEN "in_clinic" ELSE "video_consult",
   confidence |-> "low",
   additional_notes |-> "Without clear symptom matches, professional veterinary assessment is recommended."]

\* lines 332-347, top being matched_entries[0]['metadata'] (line 330)
TopMatchResponse(pet_details, top) ==
  [pet_name |-> Get(pet_details, "name", "Your pet"),
   summary |-> <<"Based on symptoms, this appears to be related to ",
                 Get(top, "symptom", "the condition")>>,
   what_we_found |-> Get(top, "description", ""),
   immediate_steps |-> <<"Follow home care guidelines below",
                         "Monitor symptoms closely",
                         "Note any worsening">>,
   home_care_tips |-> <<Get(top, "home_care_india", "Keep comfortable and monitor")>>,
   when_to_see_vet |-> Get(top, "vet_triggers", "If symptoms persist or worsen"),
   urgency_level |-> Get(top, "severity", "routine"),
   service_recommendation |-> Get(top, "service_recommendation", "video_consult"),
   confidence |-> "medium",
   additional_notes |-> Get(top, "indian_climate_factors", "")]

\* the emergency flag not passed on to the template
create_fallback_response_IgnoresEmergency(pet_details, matched_entries, is_emergency) ==
  IF Len(matched_entries) = 0
  THEN NoMatchTemplate(pet_details, FALSE)
  ELSE TopMatchResponse(pet_details, matched_entries[1].metadata)

create_fallback_response(pet_details, matched_entries, is_emergency) ==
  IF Len(matched_entries) = 0
  THEN NoMatchTemplate(pet_details, is_emergency)
  ELSE TopMatchResponse(pet_details, matched_entries[1].metadata)

(***************************************************************************)
(* generate_response, lines 187-298.                                       *)
(***************************************************************************)
\* lines 195-270: what the prompt is rendered from
BuildPrompt(pet_details, query, matched_entries, is_emergency) ==
  [pet_summary |->
     [k \in {"name", "species", "breed", "age", "weight", "sex",
             "vaccination_summary", "medical_history"} |->
        Get(pet_details, k, "Not provided")],
   query |-> query,
   context |->
     [i \in 1..Len(Take(matched_entries, 3)) |->
        [k \in {"symptom", "description", "severity", "home_care_india",
                "vet_triggers"} |->
           Get(matched_entries[i].metadata, k, "N/A")]],
   emergency_status |-> is_emergency,
   schema_pet_name |-> Get(pet_details, "name", "Your pet")]

\* lines 287-292
QueryMetadata(matched_entries, is_emergency) ==
  [timestamp |-> "now",
   num_matches |-> Len(matched_entries),
   is_emergency |-> is_emergency,
   top_match_score |->
     IF Len(matched_entries) > 0 THEN matched_entries[1].score ELSE 0]

\* lines 273-294, the body of the try: it raises, or it returns a result
TryBody(pet_details, matched_entries, is_emergency, llm) ==
  LET raises == [raised |-> TRUE, state |-> "", result |-> <<>>]
      json_match == ReSearch(llm.text)
      parsed == JsonLoads(json_match.group)
      fallback == create_fallback_response(pet_details, matched_entries,
                                           is_emergency)
      query_metadata == QueryMetadata(matched_entries, is_emergency)
  IN  IF llm.kind = "raise" THEN raises
      ELSE IF json_match.found
           THEN IF ~parsed.ok THEN raises
                ELSE [raised |-> FALSE, state |-> "SUCCESS",
                      result |-> SetKey(parsed.value, "query_metadata",
                                        query_metadata)]
           ELSE [raised |-> FALSE, state |-> "FALLBACK",
                 result |-> SetKey(fallback, "query_metadata", query_metadata)]

\* an except clause that catches the boundary's own errors only
generate_response_Uncaught(pet_details, query, matched_entries, llm) ==
  LET is_emergency == detect_emergency(query)
      try == TryBody(pet_details, matched_entries, is_emergency, llm)
  IN  IF try.raised
      THEN IF llm.kind = "raise"
           THEN [outcome |-> "returned", state |-> "FALLBACK",
                 result |-> create_fallback_response(pet_details,
                                                     matched_entries,
                                                     is_emergency)]
           ELSE [outcome |-> "raised", state |-> "", result |-> <<>>]
      ELSE [outcome |-> "returned", state |-> try.state, result |-> try.result]

\* lines 222-223 and 272-298: how the call ends.  outcome is "returned" or
\* "raised"; state is the terminal state of the synthesizer
generate_response(pet_details, query, matched_entries, llm) ==
  LET is_emergency == detect_emergency(query)
      try == TryBody(pet_details, matched_entries, is_emergency, llm)
  IN  IF try.raised
      THEN [outcome |-> "returned", state |-> "FALLBACK",
            result |-> create_fallback_response(pet_details, matched_entries,
                                                is_emergency)]
      ELSE [outcome |-> "returned", state |-> try.state, result |-> try.result]

(***************************************************************************)
(* process_query, lines 349-375.                                           *)
(***************************************************************************)
\* lines 357-363
SpeciesFilter(pet_details) ==
  LET species == Lower(Get(pet_details, "species", <<>>))
  IN  IF Contains(species, <<"d","o","g">>) THEN <<"d","o","g","s">>
      ELSE IF Contains(species, <<"c","a","t">>) THEN <<"c","a","t","s">>
           ELSE NoSpecies

(***************************************************************************)
(* The inputs of the calls.                                                *)
(***************************************************************************)
Pet(name, species) ==
  [name |-> name, species |-> species, breed |-> "Mixed", age |-> "Unknown",
   weight |-> "Unknown", sex |-> "Unknown",
   vaccination_summary |-> "Not provided",
   medical_history |-> "No history provided"]

Pets ==
  {Pet("Bruno", <<"D","o","g">>), Pet("Misty", <<"C","A","T">>), Pet("Thumper", <<"R","a","b","b","i","t">>),
   Pet("Simba", <<"C","a","t","-","d","o","g"," ","m","i","x">>)}

q_bleeding == <<"M","y"," ","d","o","g"," ","i","s"," ","B","L","E","E","D","I","N","G"," ","f","r","o","m"," ","t","h","e"," ","p","a","w">>

q_vomit == <<"h","e"," ","v","o","m","i","t","s"," ","a","n","d"," ","w","o","n","'","t"," ","e","a","t">>

Queries == {q_bleeding, q_vomit}

\* the species and top_k a direct caller of search passes
SearchSpecies == {NoSpecies, <<"d","o","g","s">>, <<"C","a","t","s">>}

SearchTopKs == {1, 2, TOP_K}

(***************************************************************************)
(* The state machine.                                                      *)
(*                                                                         *)
(* documents, metadata, index, loaded: the fields of the SnoutiqRAG        *)
(*   instance (lines 65-68).                                               *)
(* loader: the load_datasets call in progress, if any: its position, its   *)
(*   locals and what the last call returned.                               *)
(* call: for every caller, the search or process_query call it has in      *)
(*   progress: its position, arguments and locals, and how it ended.       *)
(* expand: a call of expand_query on its own.                              *)
(*                                                                         *)
(* load_datasets runs while no query is in progress and queries start      *)
(* while no load is, as in app.py, where initialize_rag_system() returns   *)
(* before app.run() serves (lines 219-229); queries overlap one another.   *)
(***************************************************************************)
LoaderIdle(returned) ==
  [pc |-> "idle", all_texts |-> <<>>, all_metadata |-> <<>>,
   embeddings |-> <<>>, returned |-> returned]

IdleCall == [pc |-> "idle"]

ExpandIdle == [pc |-> "idle"]

\* __init__, lines 54-70
InitInstance ==
  /\ documents = <<>>
  /\ metadata = <<>>
  /\ index = NoIndex
  /\ loaded = FALSE
  /\ loader = LoaderIdle("none")
  /\ expand = ExpandIdle

\* one caller at a time
Callers == {1}

Init ==
  /\ InitInstance
  /\ call = [c \in Callers |-> IdleCall]

NoCallInProgress == \A c \in DOMAIN call : call[c].pc = "idle"

\* load_datasets(dataset_files), lines 72-112: the files are read and, unless
\* nothing was read (lines 102-104), the texts are embedded
LoadDatasetsCall(dataset_files) ==
  /\ loader.pc = "idle"
  /\ NoCallInProgress
  /\ LET acc == LoadFiles([texts |-> <<>>, metas |-> <<>>], dataset_files)
     IN  loader' = IF Len(acc.texts) = 0
                   THEN LoaderIdle("False")
                   ELSE [pc |-> "line116", all_texts |-> acc.texts,
                         all_metadata |-> acc.metas,
                         embeddings |-> Encode(acc.texts),
                         returned |-> "none"]
  /\ UNCHANGED <<documents, metadata, index, loaded, call, expand>>

\* line 116: self.index = faiss.IndexFlatIP(dimension)
LoadNewIndex ==
  /\ loader.pc = "line116"
  /\ index' = EmptyIndex
  /\ loader' = [loader EXCEPT !.pc = "line117"]
  /\ UNCHANGED <<documents, metadata, loaded, call, expand>>

\* line 117: self.index.add(embeddings)
LoadIndexAdd ==
  /\ loader.pc = "line117"
  /\ index' = IndexAdd(index, loader.embeddings)
  /\ loader' = [loader EXCEPT !.pc = "line119"]
  /\ UNCHANGED <<documents, metadata, loaded, call, expand>>

\* line 119: self.documents = all_texts
LoadSetDocuments ==
  /\ loader.pc = "line119"
  /\ documents' = loader.all_texts
  /\ loader' = [loader EXCEPT !.pc = "line120"]
  /\ UNCHANGED <<metadata, index, loaded, call, expand>>

\* line 120: self.metadata = all_metadata
LoadSetMetadata ==
  /\ loader.pc = "line120"
  /\ metadata' = loader.all_metadata
  /\ loader' = [loader EXCEPT !.pc = "line121"]
  /\ UNCHANGED <<documents, index, loaded, call, expand>>

\* lines 121-124: self.loaded = True; return True
LoadSetLoaded ==
  /\ loader.pc = "line121"
  /\ loaded' = TRUE
  /\ loader' = LoaderIdle("True")
  /\ UNCHANGED <<documents, metadata, index, call, expand>>

\* a search that records each match's score in the shared entry it matched
ProcessQueryCall_Annotates(c, pets, queries) ==
  /\ call[c].pc = "idle"
  /\ loader.pc = "idle"
  /\ \E pet_details \in pets, query \in queries :
       LET species == SpeciesFilter(pet_details)
       IN  \E search \in SearchOutcomes(species, TOP_K) :
             /\ call' = [call EXCEPT ![c] =
                          [pc |-> "INVOKE_LLM",
                           pet_details |-> pet_details,
                           query |-> query,
                           species |-> species,
                           expanded_query |-> expand_query(query),
                           hits |-> search.hits,
                           matches |-> search.results,
                           prompt |-> BuildPrompt(pet_details, query,
                                                  search.results,
                                                  detect_emergency(query))]]
             /\ metadata' =
                  [i \in DOMAIN metadata |->
                     IF \E h \in DOMAIN search.hits :
                          /\ search.hits[h].idx = i
                          /\ ~(search.hits[h].score < MIN_SIMILARITY)
                     THEN SetKey(metadata[i], "last_score",
                                 search.hits[CHOOSE h \in DOMAIN search.hits :
                                               search.hits[h].idx = i].score)
                     ELSE metadata[i]]
  /\ UNCHANGED <<documents, index, loaded, loader, expand>>

\* process_query(pet_details, query), lines 349-372 and 195-274: the species
\* filter, search, the prompt, and the request to the generative boundary
ProcessQueryCall(c, pets, queries) ==
  /\ call[c].pc = "idle"
  /\ loader.pc = "idle"
  /\ \E pet_details \in pets, query \in queries :
       LET species == SpeciesFilter(pet_details)
       IN  \E search \in SearchOutcomes(species, TOP_K) :
             call' = [call EXCEPT ![c] =
                        [pc |-> "INVOKE_LLM",
                         pet_details |-> pet_details,
                         query |-> query,
                         species |-> species,
                         expanded_query |-> expand_query(query),
                         hits |-> search.hits,
                         matches |-> search.results,
                         prompt |-> BuildPrompt(pet_details, query,
                                                search.results,
                                                detect_emergency(query))]]
  /\ UNCHANGED <<documents, metadata, index, loaded, loader, expand>>

\* lines 274-298 and 372-375: the boundary answers or raises, and the call
\* ends with generate_response's result
ProcessQueryEnd(c, outcomes) ==
  /\ call[c].pc = "INVOKE_LLM"
  /\ \E llm \in outcomes :
       call' = [call EXCEPT ![c] =
                  [pc |-> "done",
                   pet_details |-> call[c].pet_details,
                   query |-> call[c].query,
                   species |-> call[c].species,
                   hits |-> call[c].hits,
                   matches |-> call[c].matches,
                   llm |-> llm,
                   response |-> generate_response(call[c].pet_details,
                                                  call[c].query,
                                                  call[c].matches, llm)]]
  /\ UNCHANGED <<documents, metadata, index, loaded, loader, expand>>

\* search(query, species, top_k) called on its own, lines 144-185
SearchCall(c, queries, filters, top_ks) ==
  /\ call[c].pc = "idle"
  /\ loader.pc = "idle"
  /\ \E query \in queries, species \in filters, top_k \in top_ks :
       \E search \in SearchOutcomes(species, top_k) :
         call' = [call EXCEPT ![c] =
                    [pc |-> "searched", query |-> query, species |-> species,
                     top_k |-> top_k,
                     expanded_query |-> expand_query(query),
                     hits |-> search.hits, results |-> search.results]]
  /\ UNCHANGED <<documents, metadata, index, loaded, loader, expand>>

\* the caller takes the result; it may call again
Forget(c) ==
  /\ call[c].pc \in {"done", "searched"}
  /\ call' = [call EXCEPT ![c] = IdleCall]
  /\ UNCHANGED <<documents, metadata, index, loaded, loader, expand>>

Next ==
  \/ \E dataset_files \in DatasetFileLists : LoadDatasetsCall(dataset_files)
  \/ LoadNewIndex
  \/ LoadIndexAdd
  \/ LoadSetDocuments
  \/ LoadSetMetadata
  \/ LoadSetLoaded
  \/ \E c \in DOMAIN call : ProcessQueryCall(c, Pets, Queries)
  \/ \E c \in DOMAIN call : ProcessQueryEnd(c, LLMOutcomes)
  \/ \E c \in DOMAIN call : SearchCall(c, Queries, SearchSpecies, SearchTopKs)
  \/ \E c \in DOMAIN call : Forget(c)

Spec == Init /\ [][Next]_vars

(***************************************************************************)
(* Concurrent callers of one instance: the surrounding service runs        *)
(* rag_system.process_query (app.py line 164) on several requests at once. *)
(* The inputs are fewer than in Spec, the steps are the same.              *)
(***************************************************************************)
NumConcurrent == 2

InitConcurrent ==
  /\ InitInstance
  /\ call = [c \in 1..NumConcurrent |-> IdleCall]

ConcurrentPets == {Pet("Bruno", <<"D","o","g">>), Pet("Misty", <<"C","A","T">>)}

ConcurrentOutcomes ==
  {[kind |-> "raise", exc |-> "error"],
   [kind |-> "text", text |-> <<"prose", "{", "members:full", "}", "prose">>]}

NextConcurrent ==
  \/ LoadDatasetsCall(<<f_vomit>>)
  \/ LoadNewIndex
  \/ LoadIndexAdd
  \/ LoadSetDocuments
  \/ LoadSetMetadata
  \/ LoadSetLoaded
  \/ \E c \in DOMAIN call : ProcessQueryCall(c, ConcurrentPets, {q_bleeding})
  \/ \E c \in DOMAIN call : ProcessQueryEnd(c, ConcurrentOutcomes)
  \/ \E c \in DOMAIN call : SearchCall(c, {q_vomit}, {NoSpecies}, {1})
  \/ \E c \in DOMAIN call : Forget(c)

SpecConcurrent == InitConcurrent /\ [][NextConcurrent]_vars

(***************************************************************************)
(* expand_query on its own, over every query made of a few fragments.      *)
(***************************************************************************)
ExpandFragments ==
  {<<"v","o","m","i","t">>, <<"i","n","g">>, <<" ">>, <<"B","r","e","a","t","h">>, <<"e","a","t">>, <<"M","y"," ","d","o","g"," ">>, <<"b","l","o","o","d">>,
   <<"b","l","e","e","d","i","n","g">>}

\* the most fragments in a query
MaxFragments == 2

RECURSIVE Concat(_)
Concat(parts) == IF Len(parts) = 0 THEN <<>> ELSE Head(parts) \o Concat(Tail(parts))

ExpandInputs ==
  {Concat(parts) :
     parts \in UNION {[1..n -> ExpandFragments] : n \in 0..MaxFragments}}

ExpandCall ==
  /\ expand.pc = "idle"
  /\ \E query \in ExpandInputs : expand' = [pc |-> "called", query |-> query]
  /\ UNCHANGED <<documents, metadata, index, loaded, loader, call>>

ExpandReturn ==
  /\ expand.pc = "called"
  /\ expand' = [pc |-> "returned", query |-> expand.query,
                expanded |-> ExpandedList(expand.query),
                ret |-> expand_query(expand.query)]
  /\ UNCHANGED <<documents, metadata, index, loaded, loader, call>>

ExpandForget ==
  /\ expand.pc = "returned"
  /\ expand' = ExpandIdle
  /\ UNCHANGED <<documents, metadata, index, loaded, loader, call>>

NextExpand == ExpandCall \/ ExpandReturn \/ ExpandForget

SpecExpand == Init /\ [][NextExpand]_vars

(***************************************************************************)
(* search on its own against a corpus larger than the candidates a small   *)
(* top_k asks the index for: four entries, a routine, an emergency, an     *)
(* urgent one and one whose severity is not in the boost table.            *)
(***************************************************************************)
SearchDatasetFiles == <<f_mixed, f_vomit, f_odd>>

NextSearch ==
  \/ LoadDatasetsCall(SearchDatasetFiles)
  \/ LoadNewIndex
  \/ LoadIndexAdd
  \/ LoadSetDocuments
  \/ LoadSetMetadata
  \/ LoadSetLoaded
  \/ \E c \in DOMAIN call : SearchCall(c, {q_vomit}, SearchSpecies, SearchTopKs)
  \/ \E c \in DOMAIN call : Forget(c)

SpecSearch == Init /\ [][NextSearch]_vars

(***************************************************************************)
(* Properties.                                                             *)
(***************************************************************************)
\* the generative boundary failed: it raised, or its text holds no {...}, or
\* the {...} it holds is not JSON
LLMFailed(llm) ==
  \/ llm.kind = "raise"
  \/ ~ReSearch(llm.text).found
  \/ ~JsonLoads(ReSearch(llm.text).group).ok

Done == {c \in DOMAIN call : call[c].pc = "done"}

RequiredKeys ==
  {"pet_name", "summary", "what_we_found", "immediate_steps",
   "home_care_tips", "when_to_see_vet", "urgency_level",
   "service_recommendation", "confidence", "additional_notes"}

\* C1: process_query never raises for well-formed input: whatever the
\* generative boundary does (raises, times out, returns text without braces,
\* with braces that are not JSON, or with valid JSON), loaded or not, the call
\* ends by returning a response, and every failure of the boundary ends in
\* FALLBACK with the deterministic fallback response.
ProcessQueryNeverRaises ==
  \A c \in DOMAIN call :
    /\ call[c].pc = "INVOKE_LLM" =>
         \A llm \in LLMOutcomes :
           generate_response(call[c].pet_details, call[c].query,
                             call[c].matches, llm).outcome = "returned"
    /\ call[c].pc = "done" =>
         /\ call[c].response.outcome = "returned"
         /\ LLMFailed(call[c].llm) =>
              LET expected ==
                    IF Len(call[c].matches) = 0
                    THEN NoMatchTemplate(call[c].pet_details,
                                         detect_emergency(call[c].query))
                    ELSE TopMatchResponse(call[c].pet_details,
                                          call[c].matches[1].metadata)
              IN  /\ call[c].response.state = "FALLBACK"
                  /\ \A k \in RequiredKeys :
                       /\ k \in DOMAIN call[c].response.result
                       /\ call[c].response.result[k] = expected[k]

\* C1 witness: a loaded instance, matches found, and a boundary text whose
\* {...} is not JSON
ProcessQueryNeverRaisesWitness ==
  \E c \in Done :
    /\ loaded
    /\ Len(call[c].matches) > 0
    /\ call[c].llm.kind = "text"
    /\ ReSearch(call[c].llm.text).found
    /\ ~JsonLoads(ReSearch(call[c].llm.text).group).ok
    /\ call[c].response.outcome = "returned"

\* C2: fallback totality: the response process_query returns has every
\* required key and an urgency_level among emergency, urgent, routine,
\* whatever text the boundary returned and whatever the corpus metadata.
FallbackTotality ==
  \A c \in Done :
    /\ RequiredKeys \subseteq DOMAIN call[c].response.result
    /\ call[c].response.result["urgency_level"]
         \in {"emergency", "urgent", "routine"}

\* C3: the returned response carries query_metadata with num_matches,
\* is_emergency and top_match_score on every path, SUCCESS and FALLBACK alike.
QueryMetadataOnEveryPath ==
  \A c \in Done :
    /\ "query_metadata" \in DOMAIN call[c].response.result
    /\ LET qm == call[c].response.result["query_metadata"]
       IN  /\ qm.num_matches = Len(call[c].matches)
           /\ qm.is_emergency = detect_emergency(call[c].query)
           /\ qm.top_match_score =
                IF Len(call[c].matches) > 0 THEN call[c].matches[1].score
                ELSE 0

\* what the claims call the no-match fallback template
IsNoMatchTemplate(result, is_emergency) ==
  /\ RequiredKeys \subseteq DOMAIN result
  /\ result["confidence"] = "low"
  /\ result["urgency_level"] = (IF is_emergency THEN "urgent" ELSE "routine")
  /\ result["service_recommendation"] =
       (IF is_emergency THEN "in_clinic" ELSE "video_consult")

\* C4 as claimed: before any successful load, search returns the empty list
\* and process_query returns the no-match fallback template (confidence low,
\* urgency and service by the emergency flag).
NotLoadedGivesTemplate ==
  \A c \in DOMAIN call :
    /\ (call[c].pc = "searched" /\ ~loaded) => call[c].results = <<>>
    /\ (call[c].pc = "done" /\ ~loaded) =>
         /\ call[c].matches = <<>>
         /\ call[c].response.outcome = "returned"
         /\ IsNoMatchTemplate(call[c].response.result,
                              detect_emergency(call[c].query))

\* C4 amended: before any successful load, search returns the empty list and
\* process_query returns the no-match fallback template whenever the
\* generative boundary failed; when the boundary returned a JSON object,
\* process_query returns that object with query_metadata attached.
NotLoadedGivesTemplateOnFailure ==
  \A c \in DOMAIN call :
    /\ (call[c].pc = "searched" /\ ~loaded) => call[c].results = <<>>
    /\ (call[c].pc = "done" /\ ~loaded) =>
         /\ call[c].matches = <<>>
         /\ call[c].response.outcome = "returned"
         /\ LLMFailed(call[c].llm) =>
              IsNoMatchTemplate(call[c].response.result,
                                detect_emergency(call[c].query))
         /\ ~LLMFailed(call[c].llm) =>
              /\ DOMAIN call[c].response.result =
                   DOMAIN JsonLoads(ReSearch(call[c].llm.text).group).value
                     \cup {"query_metadata"}
              /\ \A k \in DOMAIN call[c].response.result \ {"query_metadata"} :
                   call[c].response.result[k] =
                     JsonLoads(ReSearch(call[c].llm.text).group).value[k]

\* C4 witness: nothing loaded, an emergency query, the boundary raises
NotLoadedGivesTemplateWitness ==
  \E c \in Done :
    /\ ~loaded
    /\ call[c].llm.kind = "raise"
    /\ detect_emergency(call[c].query)
    /\ call[c].response.result["urgency_level"] = "urgent"

\* the boost table and the filters, as the claims state them
ClaimBoost(meta) ==
  LET severity == IF "severity" \in DOMAIN meta THEN meta["severity"]
                  ELSE "routine"
  IN  IF severity = "emergency" THEN 15
      ELSE IF severity = "urgent" THEN 12 ELSE 10

ClaimSurvives(hit, species) ==
  /\ hit.score >= 30
  /\ species # <<>> =>
       /\ "species" \in DOMAIN metadata[hit.idx]
       /\ Lower(metadata[hit.idx]["species"]) = Lower(species)

\* C5: when the generative boundary is unreachable and the ranker returned a
\* match, the response has confidence medium and takes urgency_level,
\* service_recommendation, what_we_found, when_to_see_vet, home_care_tips and
\* additional_notes from the top-ranked match, the surviving candidate with
\* the highest boosted score; for a one-entry corpus (urgent, dogs) there is
\* exactly one result, boosted by 1.2, and urgency_level is urgent.
TopMatchFallback ==
  \A c \in Done :
    (call[c].llm.kind = "raise" /\ Len(call[c].matches) >= 1) =>
      LET top == call[c].matches[1]
          r == call[c].response.result
      IN  /\ call[c].response.outcome = "returned"
          /\ r["confidence"] = "medium"
          /\ r["urgency_level"] = Get(top.metadata, "severity", "routine")
          /\ r["service_recommendation"] =
               Get(top.metadata, "service_recommendation", "video_consult")
          /\ r["what_we_found"] = Get(top.metadata, "description", "")
          /\ r["when_to_see_vet"] =
               Get(top.metadata, "vet_triggers", "If symptoms persist or worsen")
          /\ r["home_care_tips"] =
               <<Get(top.metadata, "home_care_india",
                     "Keep comfortable and monitor")>>
          /\ r["additional_notes"] =
               Get(top.metadata, "indian_climate_factors", "")
          /\ \E i \in DOMAIN call[c].hits :
               /\ ClaimSurvives(call[c].hits[i], call[c].species)
               /\ metadata[call[c].hits[i].idx] = top.metadata
               /\ call[c].hits[i].score * ClaimBoost(top.metadata) = top.score
          /\ \A i \in DOMAIN call[c].hits :
               ClaimSurvives(call[c].hits[i], call[c].species) =>
                 top.score >= call[c].hits[i].score
                                * ClaimBoost(metadata[call[c].hits[i].idx])
          /\ (/\ Len(metadata) = 1
              /\ Get(metadata[1], "severity", "") = "urgent"
              /\ Get(metadata[1], "species", <<>>) = <<"d","o","g","s">>) =>
               /\ Len(call[c].matches) = 1
               /\ top.score = call[c].hits[1].score * 12
               /\ r["urgency_level"] = "urgent"

\* C5 witness: two candidates survive, the top-ranked one is not the one with
\* the higher raw similarity, and the boundary is unreachable
TopMatchFallbackWitness ==
  \E c \in Done :
    /\ call[c].llm.kind = "raise"
    /\ Len(call[c].matches) >= 2
    /\ call[c].matches[1].raw < call[c].matches[2].raw
    /\ call[c].response.result["confidence"] = "medium"

\* the calls that have run search, and the list search returned to each
Searched == {c \in DOMAIN call : call[c].pc # "idle"}

Returned(c) ==
  IF call[c].pc = "searched" THEN call[c].results ELSE call[c].matches

\* C6: filter soundness: every result search returns comes from a hit whose
\* raw similarity is at least MIN_SIMILARITY (0.3) and, when a species filter
\* is set, whose metadata species equals the filter, case-insensitively; in
\* process_query the filter is dogs when the lower-cased species contains
\* "dog", otherwise cats when it contains "cat", otherwise none.
FilterSoundness ==
  \A c \in Searched :
    /\ \A n \in DOMAIN Returned(c) :
         LET r == Returned(c)[n]
         IN  /\ r.raw >= 30
             /\ \E i \in DOMAIN call[c].hits :
                  /\ call[c].hits[i].score = r.raw
                  /\ metadata[call[c].hits[i].idx] = r.metadata
                  /\ documents[call[c].hits[i].idx] = r.text
             /\ call[c].species # <<>> =>
                  /\ "species" \in DOMAIN r.metadata
                  /\ Lower(r.metadata["species"]) = Lower(call[c].species)
    /\ call[c].pc \in {"INVOKE_LLM", "done"} =>
         LET given == Lower(call[c].pet_details["species"])
         IN  call[c].species =
               IF Contains(given, <<"d","o","g">>) THEN <<"d","o","g","s">>
               ELSE IF Contains(given, <<"c","a","t">>) THEN <<"c","a","t","s">>
                    ELSE <<>>

\* C6 witness: a process_query call for a pet whose species holds both "cat"
\* and "dog", filtered as dogs, that matched an entry whose species is
\* written "Dogs"
FilterSoundnessWitness ==
  \E c \in Done :
    /\ Contains(Lower(call[c].pet_details["species"]), <<"c","a","t">>)
    /\ call[c].species = <<"d","o","g","s">>
    /\ \E n \in DOMAIN call[c].matches :
         call[c].matches[n].metadata["species"] = <<"D","o","g","s">>

\* C7: severity ordering: of two results with equal raw similarity, one
\* emergency and one routine, the emergency one comes strictly earlier and
\* has the strictly greater boosted score; a severity outside the boost
\* table is boosted by 1.0.
SeverityOrdering ==
  \A c \in Searched :
    LET R == Returned(c)
        severity(r) == Get(r.metadata, "severity", "routine")
    IN  /\ \A i, j \in DOMAIN R :
             (/\ R[i].raw = R[j].raw
              /\ severity(R[i]) = "emergency"
              /\ severity(R[j]) = "routine") =>
               (i < j /\ R[i].score > R[j].score)
        /\ \A i \in DOMAIN R :
             severity(R[i]) \notin {"emergency", "urgent", "routine"} =>
               R[i].score = R[i].raw * 10

\* C7 witness: an emergency and a routine result of equal raw similarity in
\* one returned list
SeverityOrderingWitness ==
  \E c \in Searched :
    \E i, j \in DOMAIN Returned(c) :
      /\ Returned(c)[i].raw = Returned(c)[j].raw
      /\ Get(Returned(c)[i].metadata, "severity", "routine") = "emergency"
      /\ Get(Returned(c)[j].metadata, "severity", "routine") = "routine"

\* C8: expansion cap: expand_query returns the original query followed by at
\* most 2 generated variants, joined by spaces, never more than 3 in all; a
\* query in which no synonym-table term occurs (the empty and the blank query
\* included) is returned unchanged.
ExpansionCap ==
  expand.pc = "returned" =>
    /\ expand.expanded[1] = expand.query
    /\ \E n \in 1..3 :
         /\ n <= Len(expand.expanded)
         /\ expand.ret = Join(SubSeq(expand.expanded, 1, n), <<" ">>)
    /\ (\A t \in DOMAIN MEDICAL_SYNONYMS :
          ~Contains(Lower(expand.query), MEDICAL_SYNONYMS[t].term)) =>
         expand.ret = expand.query

\* C8 witness: a query with more than 2 generated variants, cut to 3 in all
ExpansionCapWitness ==
  /\ expand.pc = "returned"
  /\ Len(expand.expanded) > 3
  /\ expand.ret = Join(SubSeq(expand.expanded, 1, 3), <<" ">>)

\* C9: index/corpus coupling behind the readiness gate: whenever loaded is
\* true the index is built, holds as many vectors as there are documents and
\* metadata entries, and position i of each refers to the same entry; at
\* every step of load_datasets and for any sequence of load_datasets calls.
IndexCorpusCoupling ==
  loaded =>
    /\ index.built
    /\ Len(index.vecs) = Len(documents)
    /\ Len(documents) = Len(metadata)
    /\ \A i \in DOMAIN documents :
         /\ index.vecs[i] = Embed(documents[i])
         /\ documents[i] = EntryText(metadata[i])

\* C10: query processing writes no shared state: every step of search,
\* generate_response and process_query leaves documents, metadata, index and
\* loaded unchanged, so each of several concurrent process_query calls
\* returns what it would return run alone against the instance.
QueriesWriteNoSharedState ==
  /\ [][call' # call =>
          UNCHANGED <<documents, metadata, index, loaded>>]_vars
  /\ [](\A c \in Done :
          /\ \E search \in SearchOutcomes(SpeciesFilter(call[c].pet_details),
                                          TOP_K) :
               /\ search.hits = call[c].hits
               /\ search.results = call[c].matches
          /\ call[c].response =
               generate_response(call[c].pet_details, call[c].query,
                                 call[c].matches, call[c].llm))

\* C10 witness: two process_query calls in progress at once on a loaded
\* instance, one already returned with matches, the other awaiting the
\* generative boundary
QueriesWriteNoSharedStateWitness ==
  \E c1, c2 \in DOMAIN call :
    /\ c1 # c2
    /\ loaded
    /\ call[c1].pc = "done"
    /\ Len(call[c1].matches) > 0
    /\ call[c2].pc = "INVOKE_LLM"

\* the top_k a call ran search with: process_query passes none (line 367),
\* so the default applies
TopKOf(c) == IF call[c].pc = "searched" THEN call[c].top_k ELSE TOP_K

\* the result the claims expect for a candidate
ClaimResult(hit) ==
  [score |-> hit.score * ClaimBoost(metadata[hit.idx]),
   metadata |-> metadata[hit.idx],
   text |-> documents[hit.idx],
   raw |-> hit.score]

\* C11: search returns at most top_k results, drawn only from the
\* min(2*top_k, corpus_size) candidates the index search returned (those with
\* the highest raw similarity, the best first), ordered descending by boosted
\* score, results with equal boosted score keeping the order in which the
\* index search returned them: the n-th result is the surviving candidate
\* that exactly n-1 surviving candidates precede, a candidate preceding
\* another when its boosted score is greater, or equal and it came earlier.
SearchRanking ==
  \A c \in Searched :
    LET R == Returned(c)
        H == call[c].hits
        top_k == TopKOf(c)
        S == {i \in DOMAIN H : ClaimSurvives(H[i], call[c].species)}
        boosted(i) == H[i].score * ClaimBoost(metadata[H[i].idx])
        Precedes(i, j) ==
          \/ boosted(i) > boosted(j)
          \/ boosted(i) = boosted(j) /\ i < j
        Rank(i) == Cardinality({j \in S : Precedes(j, i)}) + 1
    IN  /\ Len(R) <= top_k
        /\ Len(H) = Min(2 * top_k, Len(documents))
        /\ \A i, j \in DOMAIN H : i < j =>
             /\ H[i].idx # H[j].idx
             /\ H[i].score >= H[j].score
        /\ \A m, n \in DOMAIN R : m < n => R[m].score >= R[n].score
        /\ Len(R) = Min(top_k, Cardinality(S))
        /\ \A i \in S : Rank(i) <= top_k => R[Rank(i)] = ClaimResult(H[i])

\* C11 witness: search with top_k 1 on a corpus of more than 2 entries: the
\* index was asked for 2 candidates, both survive with the same boosted score
\* out of different raw similarities, and the one result returned is the
\* candidate the index returned first
SearchRankingWitness ==
  \E c \in Searched :
    /\ call[c].pc = "searched"
    /\ call[c].top_k = 1
    /\ Len(documents) > 2
    /\ Len(call[c].hits) = 2
    /\ call[c].hits[1].score > call[c].hits[2].score
    /\ call[c].hits[1].score * ClaimBoost(metadata[call[c].hits[1].idx])
         = call[c].hits[2].score * ClaimBoost(metadata[call[c].hits[2].idx])
    /\ Len(call[c].results) = 1
    /\ call[c].results[1] = ClaimResult(call[c].hits[1])

====
